---- MODULE Spec2Model ----
(***************************************************************************)
(* LinkedinWatcher: the tracked-people store (models.py, db.py), the       *)
(* snapshot diff engine (diff_logic.py) and the batch driver loop          *)
(* (run_tracker.py main, mirrored line for line by the /run route of       *)
(* web_app.py).                                                            *)
(*                                                                         *)
(* Strings are sequences of one-character strings; the SQL NULL / Python   *)
(* None of a text column is the value NULL below, which is no string.      *)
(* A history row keeps its insertion order (history.id AUTOINCREMENT);     *)
(* its timestamp column is not modelled.  Dates are kept relative to the   *)
(* current day: a last_seen is NoDate, Today or Earlier, and the passing   *)
(* of midnight (Tick) turns every Today into Earlier.                      *)
(***************************************************************************)
EXTENDS Integers, Sequences, FiniteSets, TLC

\* ---------------------------------------------------------------- bounds
MaxPeople == 2
MaxHist == 2

\* ---------------------------------------------------------------- values
NULL == <<"NULL">>
NONE == [kind |-> "none"]

NoDate == "NULL"
Earlier == "earlier"
Today == "today"

Whitespace == {" "}

\* the strings a caller passes as observed title / company
Strings == {<<>>, <<" ">>, <<"a">>, <<" ", "b", " ">>}
RawValues == Strings \cup {NULL}

\* str.strip(): drop leading and trailing whitespace
RECURSIVE LStrip(_)
LStrip(s) ==
  IF s # <<>> /\ Head(s) \in Whitespace THEN LStrip(Tail(s)) ELSE s

RECURSIVE RStrip(_)
RStrip(s) ==
  IF s # <<>> /\ s[Len(s)] \in Whitespace
  THEN RStrip(SubSeq(s, 1, Len(s) - 1))
  ELSE s

Strip(s) == RStrip(LStrip(s))

\* a _normalize that strips but returns the empty string as it is
Normalize_KeepsEmpty(value) ==
  IF value = NULL THEN NULL ELSE Strip(value)

\* a _normalize that forgets to strip (only None and "" become None)
Normalize_NoStrip(value) ==
  IF value = NULL \/ value = <<>> THEN NULL ELSE value

\* diff_logic._normalize
Normalize(value) ==
  IF value = NULL THEN NULL
  ELSE LET stripped == Strip(value)
       IN IF stripped = <<>> THEN NULL ELSE stripped

\* what fetch_public_headline returns in a field: None or a stripped,
\* non-empty string (split_headline_text and the Person branch both end in
\* "<stripped> or None")
FetchValues == {NULL, <<"a">>, <<"b">>}

Names == {<<"n">>}
Firms == {<<"f">>}
Urls == {<<"u">>}

VARIABLES
  people,       \* table people: id (1..Len) -> row
  history,      \* table history, in insertion order
  pc,           \* position of the batch driver
  listed,       \* main: people = list_people(firm_filter)
  index,        \* main: loop index (1-based)
  delay,        \* main: delay
  changed_count,
  unchanged_count,
  skipped_count,
  result,       \* main: result = fetch_public_headline(...) of this iteration
  printed,      \* the last line the run printed (run_tracker) / collected (web_app)
  fetched,      \* ids whose profile the run has fetched, in order
  before,       \* history variable: the store and the counters as they were
                \* when the last entity was processed (dropped at midnight)
  call,         \* history variable: the detect_and_record_change call made
                \* for that entity, if any, and how it ended
  fpc,          \* fetch_public_headline: position of one call
  attempt,      \* fetch_public_headline: the retry loop's attempt
  requests,     \* the HTTP requests the call has issued, each with its outcome,
                \* and the sleeps between them, in order
  doc,          \* fetch_public_headline: soup, the parsed document
  name_from_page,  \* fetch_public_headline: local
  title,        \* fetch_public_headline: local
  company,      \* fetch_public_headline: local
  consulted,    \* history variable: the sources whose content the call has read
  obs,          \* what the call returned
  text,         \* split_headline_text: the text it is given
  split         \* split_headline_text: what it returned

vars == <<people, history, pc, listed, index, delay, changed_count,
          unchanged_count, skipped_count, result, printed, fetched,
          before, call, fpc, attempt, requests, doc, name_from_page, title,
          company, consulted, obs, text, split>>

runVars == <<pc, listed, index, delay, changed_count, unchanged_count,
             skipped_count, result, printed, fetched>>

fetchVars == <<fpc, attempt, requests, doc, name_from_page, title, company,
               consulted, obs>>

splitVars == <<text, split>>

storeVars == <<people, history, before, call>>

\* ---------------------------------------------------------------- store

\* an add_person that replaces the row of a profile URL already tracked
\* (INSERT OR REPLACE on profile_url) instead of creating a second one
add_person_Replaces(tbl, name, firm, profile_url) ==
  LET row(id) == [id |-> id,
                  name |-> Strip(name),
                  firm |-> firm,
                  profile_url |-> Strip(profile_url),
                  last_title |-> NULL,
                  last_company |-> NULL,
                  last_seen |-> NoDate]
  IN IF \E i \in DOMAIN tbl : tbl[i].profile_url = Strip(profile_url)
     THEN [i \in DOMAIN tbl |->
             IF tbl[i].profile_url = Strip(profile_url) THEN row(tbl[i].id) ELSE tbl[i]]
     ELSE Append(tbl, row(Len(tbl) + 1))

\* models.add_person
add_person(tbl, name, firm, profile_url) ==
  LET firm_value == IF firm # NULL /\ Strip(firm) # <<>> THEN firm ELSE NULL
  IN Append(tbl, [id |-> Len(tbl) + 1,
                  name |-> Strip(name),
                  firm |-> firm_value,
                  profile_url |-> Strip(profile_url),
                  last_title |-> NULL,
                  last_company |-> NULL,
                  last_seen |-> NoDate])

\* an update without its WHERE clause: every row is written
update_person_snapshot_NoWhere(tbl, person_id, new_title, new_company, today_iso) ==
  [i \in DOMAIN tbl |->
     [tbl[i] EXCEPT !.last_title = new_title,
                    !.last_company = new_company,
                    !.last_seen = today_iso]]

\* an update that writes the title and company of a row only while both are
\* NULL, and afterwards stamps last_seen alone
update_person_snapshot_FirstOnly(tbl, person_id, new_title, new_company, today_iso) ==
  [i \in DOMAIN tbl |->
     IF tbl[i].id = person_id
     THEN IF tbl[i].last_title = NULL /\ tbl[i].last_company = NULL
          THEN [tbl[i] EXCEPT !.last_title = new_title,
                              !.last_company = new_company,
                              !.last_seen = today_iso]
          ELSE [tbl[i] EXCEPT !.last_seen = today_iso]
     ELSE tbl[i]]

\* an update that writes the title and company but not last_seen
update_person_snapshot_NoSeen(tbl, person_id, new_title, new_company, today_iso) ==
  [i \in DOMAIN tbl |->
     IF tbl[i].id = person_id
     THEN [tbl[i] EXCEPT !.last_title = new_title,
                         !.last_company = new_company]
     ELSE tbl[i]]

\* models.update_person_snapshot
update_person_snapshot(tbl, person_id, new_title, new_company, today_iso) ==
  [i \in DOMAIN tbl |->
     IF tbl[i].id = person_id
     THEN [tbl[i] EXCEPT !.last_title = new_title,
                         !.last_company = new_company,
                         !.last_seen = today_iso]
     ELSE tbl[i]]

\* a log_change that leaves the old_ columns NULL
log_change_NoOld(h, person_id, old_title, new_title, old_company, new_company, change_type) ==
  Append(h, [person_id |-> person_id,
             old_title |-> NULL,
             new_title |-> new_title,
             old_company |-> NULL,
             new_company |-> new_company,
             change_type |-> change_type])

\* models.log_change
log_change(h, person_id, old_title, new_title, old_company, new_company, change_type) ==
  Append(h, [person_id |-> person_id,
             old_title |-> old_title,
             new_title |-> new_title,
             old_company |-> old_company,
             new_company |-> new_company,
             change_type |-> change_type])

\* ---------------------------------------------------------------- diff

Returned(changed, message) ==
  [kind |-> "return", changed |-> changed, message |-> message]
Raised == [kind |-> "raise"]

\* a comparison that lets a None observation count as a change
field_changed_NullCounts(observed_norm, last) ==
  observed_norm # last

\* lines 57-62: title_changed / company_changed
field_changed(observed_norm, last) ==
  observed_norm # NULL /\ observed_norm # last

\* lines 69-74: change_type
change_type_of(title_changed, company_changed) ==
  IF title_changed /\ company_changed THEN "TITLE_AND_COMPANY_CHANGE"
  ELSE IF title_changed THEN "TITLE_CHANGE"
  ELSE "COMPANY_CHANGE"

\* diff_logic.detect_and_record_change on the stores (tbl, h).  fail names the
\* store operation that raises if the call reaches it ("none": no failure);
\* a store operation that raises commits nothing.
detect_and_record_change(tbl, h, person_row, observed_title, observed_company, fail, day) ==
  LET observed_title_norm == Normalize(observed_title)
      observed_company_norm == Normalize(observed_company)
      person_id == person_row.id
      last_title == person_row.last_title
      last_company == person_row.last_company
      title_changed == field_changed(observed_title_norm, last_title)
      company_changed == field_changed(observed_company_norm, last_company)
      change_type == change_type_of(title_changed, company_changed)
  IN
  IF last_title = NULL /\ last_company = NULL THEN
    IF fail = "log_change" THEN
      [people |-> tbl, history |-> h, ret |-> Raised]
    ELSE
      LET h1 == log_change(h, person_id, NULL, observed_title_norm,
                           NULL, observed_company_norm, "INIT")
      IN IF fail = "update_person_snapshot" THEN
           [people |-> tbl, history |-> h1, ret |-> Raised]
         ELSE
           [people |-> update_person_snapshot(tbl, person_id, observed_title_norm,
                                              observed_company_norm, day),
            history |-> h1,
            ret |-> Returned(TRUE, "INIT")]
  ELSE IF ~title_changed /\ ~company_changed THEN
    IF fail = "update_person_snapshot" THEN
      [people |-> tbl, history |-> h, ret |-> Raised]
    ELSE
      [people |-> update_person_snapshot(tbl, person_id, last_title, last_company, day),
       history |-> h,
       ret |-> Returned(FALSE, "NO CHANGE")]
  ELSE
    IF fail = "log_change" THEN
      [people |-> tbl, history |-> h, ret |-> Raised]
    ELSE
      LET h1 == log_change(h, person_id, last_title, observed_title_norm,
                           last_company, observed_company_norm, change_type)
      IN IF fail = "update_person_snapshot" THEN
           [people |-> tbl, history |-> h1, ret |-> Raised]
         ELSE
           [people |-> update_person_snapshot(tbl, person_id, observed_title_norm,
                                              observed_company_norm, day),
            history |-> h1,
            ret |-> Returned(TRUE, "CHANGE")]

StoreFailures == {"none", "log_change", "update_person_snapshot"}

\* ---------------------------------------------------------------- fetch

\* The Observation dictionaries fetch_public_headline can return: an error
\* with every field None, or error None with some field set.
ErrorKinds == {"network_error", "bad_status", "no_public_headline"}
NoError == "None"

Observation(name, headline_title, headline_company, error) ==
  [kind |-> "observation", name_from_page |-> name, title |-> headline_title,
   company |-> headline_company, error |-> error]

fetch_public_headline ==
  {Observation(NULL, NULL, NULL, e) : e \in ErrorKinds}
  \cup {Observation(<<"n">>, t, c, NoError) : t \in FetchValues, c \in FetchValues}

\* ---------------------------------------------------------------- driver

\* the order of text values in an ORDER BY ... ASC: character by character,
\* a proper prefix first
Alphabet == <<" ", "a", "b", "f", "n", "u">>

CharRank(c) == CHOOSE k \in DOMAIN Alphabet : Alphabet[k] = c

RECURSIVE StrLess(_, _)
StrLess(a, b) ==
  IF b = <<>> THEN FALSE
  ELSE IF a = <<>> THEN TRUE
  ELSE IF Head(a) = Head(b) THEN StrLess(Tail(a), Tail(b))
  ELSE CharRank(Head(a)) < CharRank(Head(b))

\* models.list_people: the rows (of the firm, if a filter is given) ordered
\* by firm, then name; NULL sorts first, and rows with equal keys stay in
\* rowid order.
SortKeyLess(r1, r2) ==
  \/ r1.firm = NULL /\ r2.firm # NULL
  \/ r1.firm # NULL /\ r2.firm # NULL /\ StrLess(r1.firm, r2.firm)
  \/ r1.firm = r2.firm /\ StrLess(r1.name, r2.name)
  \/ r1.firm = r2.firm /\ r1.name = r2.name /\ r1.id < r2.id

list_people(tbl, firm_filter) ==
  LET sel == IF firm_filter # NULL /\ firm_filter # <<>>
             THEN {i \in DOMAIN tbl : tbl[i].firm = firm_filter}
             ELSE DOMAIN tbl
  IN CHOOSE rows \in [1..Cardinality(sel) -> {tbl[i] : i \in sel}] :
       \A k \in DOMAIN rows : k > 1 => SortKeyLess(rows[k - 1], rows[k])

Line(tag, person_id, reason) ==
  [tag |-> tag, person_id |-> person_id, reason |-> reason]

NoLine == Line("", 0, "")

\* the summary line: "Checked {total} people. ..."
Summary(total, c, u, s) ==
  [tag |-> "SUMMARY", person_id |-> total, reason |-> <<c, u, s>>]

\* a skip test that skips nothing
skip_condition_Never(error, observed_title, observed_company) ==
  FALSE

\* a skip test that wants a title, whatever the company
skip_condition_TitleRequired(error, observed_title, observed_company) ==
  error # NoError \/ observed_title = NULL

\* a skip test that looks at the error only
skip_condition_ErrorOnly(error, observed_title, observed_company) ==
  error # NoError

\* a skip test that lets an error through
skip_condition_ErrorPasses(error, observed_title, observed_company) ==
  error = NoError /\ observed_title = NULL /\ observed_company = NULL

\* line 73: if error or (observed_title is None and observed_company is None)
skip_condition(error, observed_title, observed_company) ==
  error # NoError \/ (observed_title = NULL /\ observed_company = NULL)

\* the store and the counters an entity's processing starts from
Before(person_id) ==
  [kind |-> "before", person_id |-> person_id, people |-> people,
   history |-> history, changed_count |-> changed_count,
   unchanged_count |-> unchanged_count, skipped_count |-> skipped_count]

\* a call of detect_and_record_change and how it ended; repeated: it follows
\* a call that returned, made for the same row with the same observation
Call(person_row, observed_title, observed_company, ret) ==
  [kind |-> "call", person_row |-> person_row,
   observed_title |-> observed_title, observed_company |-> observed_company,
   ret |-> ret,
   repeated |-> /\ call # NONE
                /\ call.ret # Raised
                /\ call.person_row.id = person_row.id
                /\ call.observed_title = observed_title
                /\ call.observed_company = observed_company]

\* the store after init_db and the driver before any run
RunInit ==
  /\ people = <<>>
  /\ history = <<>>
  /\ pc = "idle"
  /\ listed = <<>>
  /\ index = 0
  /\ delay = 0
  /\ changed_count = 0
  /\ unchanged_count = 0
  /\ skipped_count = 0
  /\ result = NONE
  /\ printed = NoLine
  /\ fetched = <<>>
  /\ before = NONE
  /\ call = NONE

\* no call of fetch_public_headline under way
FetchIdle ==
  /\ fpc = "idle"
  /\ attempt = 0
  /\ requests = <<>>
  /\ doc = NONE
  /\ name_from_page = NULL
  /\ title = NULL
  /\ company = NULL
  /\ consulted = [sources |-> {}, blocks |-> 0]
  /\ obs = NONE

\* no call of split_headline_text under way
SplitIdle ==
  /\ text = NONE
  /\ split = NONE

Init == RunInit /\ FetchIdle /\ SplitIdle

\* add_people.py / add_from_url.py / web_app.py (/add, /bulk): one add_person
AddPerson(name, firm, profile_url) ==
  /\ Len(people) < MaxPeople
  /\ people' = add_person(people, name, firm, profile_url)
  /\ UNCHANGED <<history, before, call>>
  /\ UNCHANGED <<runVars, fetchVars, splitVars>>

\* midnight: dt.date.today() moves on, so every stored Today is now Earlier
Aged(rows) ==
  [i \in DOMAIN rows |->
     IF rows[i].last_seen = Today
     THEN [rows[i] EXCEPT !.last_seen = Earlier]
     ELSE rows[i]]

Tick ==
  /\ \E i \in DOMAIN people : people[i].last_seen = Today
  /\ people' = Aged(people)
  /\ listed' = Aged(listed)
  /\ before' = NONE
  /\ call' = NONE
  /\ UNCHANGED <<history, pc, index, delay, changed_count, unchanged_count,
                 skipped_count, result, printed, fetched>>
  /\ UNCHANGED <<fetchVars, splitVars>>

\* run_tracker.main up to the loop (lines 38-57)
StartRun(firm_filter, delay_seconds) ==
  /\ pc \in {"idle", "done"}
  /\ LET rows == list_people(people, firm_filter)
     IN /\ Len(history) + Len(rows) <= MaxHist
        /\ listed' = rows
        /\ IF rows = <<>>
           THEN /\ pc' = "done"
                /\ index' = 0
                /\ printed' = Line("NO PEOPLE", 0, "")
           ELSE /\ pc' = "fetch"
                /\ index' = 1
                /\ printed' = NoLine
  /\ delay' = delay_seconds
  /\ changed_count' = 0
  /\ unchanged_count' = 0
  /\ skipped_count' = 0
  /\ fetched' = <<>>
  /\ result' = NONE
  /\ before' = NONE
  /\ call' = NONE
  /\ UNCHANGED <<people, history>>
  /\ UNCHANGED <<fetchVars, splitVars>>

\* a "continue" that leaves the loop
Continue_Breaks ==
  /\ index' = index + 1
  /\ pc' = "summary"

\* the loop's "continue": the next iteration, or the end of the loop
Continue ==
  /\ index' = index + 1
  /\ pc' = IF index < Len(listed) THEN "fetch" ELSE "summary"

\* the end of the loop body (lines 91-92): sleep unless this was the last row
EndOfBody ==
  IF index < Len(listed) /\ delay # 0
  THEN pc' = "sleep" /\ index' = index
  ELSE Continue

\* lines 60-67: the fetch raised
RunFetchRaises ==
  /\ pc = "fetch"
  /\ fetched' = Append(fetched, listed[index].id)
  /\ skipped_count' = skipped_count + 1
  /\ printed' = Line("SKIP", listed[index].id, "unexpected_error")
  /\ Continue
  /\ result' = NONE
  /\ before' = Before(listed[index].id)
  /\ call' = NONE
  /\ UNCHANGED <<people, history, listed, delay, changed_count, unchanged_count>>
  /\ UNCHANGED <<fetchVars, splitVars>>

\* lines 60-63: the fetch returned
RunFetch(r) ==
  /\ pc = "fetch"
  /\ r \in fetch_public_headline
  /\ result' = r
  /\ fetched' = Append(fetched, listed[index].id)
  /\ pc' = "check"
  /\ UNCHANGED <<people, history, listed, index, delay, changed_count,
                 unchanged_count, skipped_count, printed, before, call>>
  /\ UNCHANGED <<fetchVars, splitVars>>

\* lines 69-76: an error, or neither a title nor a company: skip
RunSkip ==
  /\ pc = "check"
  /\ LET error == result.error
         observed_title == result.title
         observed_company == result.company
     IN /\ skip_condition(error, observed_title, observed_company)
        /\ printed' = Line("SKIP", listed[index].id,
                        IF error # NoError THEN error
                        ELSE "profile not public / no headline")
  /\ skipped_count' = skipped_count + 1
  /\ EndOfBody
  /\ before' = Before(listed[index].id)
  /\ call' = NONE
  /\ UNCHANGED <<people, history, listed, delay, changed_count,
                 unchanged_count, result, fetched>>
  /\ UNCHANGED <<fetchVars, splitVars>>

\* lines 69-89: otherwise detect_and_record_change, and its result counted
RunDiff(fail) ==
  /\ pc = "check"
  /\ LET error == result.error
         observed_title == result.title
         observed_company == result.company
         person == listed[index]
         r == detect_and_record_change(people, history, person,
                 observed_title, observed_company, fail, Today)
     IN /\ ~skip_condition(error, observed_title, observed_company)
        /\ people' = r.people
        /\ history' = r.history
        /\ call' = Call(person, observed_title, observed_company, r.ret)
        /\ before' = Before(person.id)
        /\ IF r.ret = Raised
           THEN /\ skipped_count' = skipped_count + 1
                /\ printed' = Line("SKIP", person.id, "diff_error")
                /\ Continue
                /\ UNCHANGED <<changed_count, unchanged_count>>
           ELSE /\ printed' = Line(r.ret.message, person.id, "")
                /\ changed_count' = changed_count + (IF r.ret.changed THEN 1 ELSE 0)
                /\ unchanged_count' = unchanged_count + (IF r.ret.changed THEN 0 ELSE 1)
                /\ EndOfBody
                /\ UNCHANGED skipped_count
  /\ UNCHANGED <<listed, delay, result, fetched>>
  /\ UNCHANGED <<fetchVars, splitVars>>

\* line 92: time.sleep(delay)
RunSleep ==
  /\ pc = "sleep"
  /\ pc' = "fetch"
  /\ index' = index + 1
  /\ UNCHANGED <<people, history, listed, delay, changed_count, unchanged_count,
                 skipped_count, result, printed, fetched, before, call>>
  /\ UNCHANGED <<fetchVars, splitVars>>

\* lines 94-98: the summary line
RunSummary ==
  /\ pc = "summary"
  /\ printed' = Summary(Len(listed), changed_count, unchanged_count, skipped_count)
  /\ pc' = "done"
  /\ UNCHANGED <<people, history, listed, index, delay, changed_count,
                 unchanged_count, skipped_count, result, fetched, before, call>>
  /\ UNCHANGED <<fetchVars, splitVars>>

Delays == {0, 5}
FirmFilters == {NULL, <<"f">>}

RunStep ==
  \/ RunFetchRaises
  \/ \E r \in fetch_public_headline : RunFetch(r)
  \/ RunSkip
  \/ \E fail \in StoreFailures : RunDiff(fail)
  \/ RunSleep
  \/ RunSummary

Next ==
  \/ \E n \in Names, f \in Firms, u \in Urls : AddPerson(n, f, u)
  \/ Tick
  \/ \E ff \in FirmFilters, d \in Delays : StartRun(ff, d)
  \/ RunStep

Spec == Init /\ [][Next]_vars

\* ------------------------------------------------- the diff engine, called
\* directly: a caller reads the row (models.get_person_by_id) and passes it
\* with any observed strings (the store does not fail here).  Calls stop
\* once the history holds MaxHist records, but for the immediate repetition
\* of a call made on an initialized row.
ApiDetect(person_id, observed_title, observed_company) ==
  /\ person_id \in DOMAIN people
  /\ LET person == people[person_id]
         r == detect_and_record_change(people, history, person,
                 observed_title, observed_company, "none", Today)
     IN /\ \/ Len(history) < MaxHist
           \/ /\ Len(history) = MaxHist
              /\ Call(person, observed_title, observed_company, r.ret).repeated
              /\ ~(call.person_row.last_title = NULL /\ call.person_row.last_company = NULL)
        /\ people' = r.people
        /\ history' = r.history
        /\ call' = Call(person, observed_title, observed_company, r.ret)
        /\ before' = Before(person_id)
  /\ UNCHANGED <<runVars, fetchVars, splitVars>>

ApiNext ==
  \/ \E n \in Names, f \in Firms, u \in Urls : AddPerson(n, f, u)
  \/ \E p \in 1..MaxPeople, t \in RawValues, c \in RawValues : ApiDetect(p, t, c)

ApiSpec == Init /\ [][ApiNext]_vars

\* ------------------------------------- scraper_public.split_headline_text
\* A text is a sequence of tokens: a word, a space, "-" or "|".

Dash == <<" ", "-", " ">>
Bar == <<"|">>
At == <<" ", "at", " ">>

\* line 80: the suffixes, in the order the loop tries them
Suffixes ==
  << <<"|", " ", "LinkedIn">>,
     <<"|", " ", "LinkedIn", " ", "Profile">>,
     <<"|", " ", "Professional", " ", "Profile", " ", "|", " ", "LinkedIn">> >>

\* str.endswith
EndsWith(s, suffix) ==
  /\ Len(s) >= Len(suffix)
  /\ SubSeq(s, Len(s) - Len(suffix) + 1, Len(s)) = suffix

\* a find that takes the last place d occurs in s (str.rfind)
Find_Last(s, d) ==
  LET hits == {i \in 1..(Len(s) - Len(d) + 1) : SubSeq(s, i, i + Len(d) - 1) = d}
  IN IF hits = {} THEN 0 ELSE CHOOSE i \in hits : \A j \in hits : i >= j

\* str.find, 1-based: the first place d occurs in s, 0 if it does not
Find(s, d) ==
  LET hits == {i \in 1..(Len(s) - Len(d) + 1) : SubSeq(s, i, i + Len(d) - 1) = d}
  IN IF hits = {} THEN 0 ELSE CHOOSE i \in hits : \A j \in hits : i <= j

\* d in s
Contains(s, d) == Find(s, d) # 0

\* str.split(d)
RECURSIVE SplitOn(_, _)
SplitOn(s, d) ==
  LET i == Find(s, d)
  IN IF i = 0 THEN <<s>>
     ELSE <<SubSeq(s, 1, i - 1)>> \o SplitOn(SubSeq(s, i + Len(d), Len(s)), d)

\* [p.strip() for p in segs if p.strip()]
StrippedNonEmpty(segs) ==
  SelectSeq([k \in DOMAIN segs |-> Strip(segs[k])], LAMBDA q : q # <<>>)

\* a join that puts a space between the segments, whatever d
RECURSIVE Join_Spaces(_, _)
Join_Spaces(segs, d) ==
  IF segs = <<>> THEN <<>>
  ELSE IF Len(segs) = 1 THEN segs[1]
  ELSE segs[1] \o <<" ">> \o Join_Spaces(Tail(segs), d)

\* d.join(segs)
RECURSIVE Join(_, _)
Join(segs, d) ==
  IF segs = <<>> THEN <<>>
  ELSE IF Len(segs) = 1 THEN segs[1]
  ELSE segs[1] \o d \o Join(Tail(segs), d)

\* v or None
OrNone(v) == IF v = NULL \/ v = <<>> THEN NULL ELSE v

\* lines 80-82: the loop over the suffixes, from the k-th on
RECURSIVE StripSuffixes(_, _)
StripSuffixes(t, k) ==
  IF k > Len(Suffixes) THEN t
  ELSE StripSuffixes(IF EndsWith(t, Suffixes[k])
                     THEN Strip(SubSeq(t, 1, Len(t) - Len(Suffixes[k])))
                     ELSE t,
                     k + 1)

\* lines 95-98: a second part that holds " at " gives a title and a company
SplitAt(p, i) ==
  IF i # 0
  THEN <<OrNone(Strip(SubSeq(p, 1, i - 1))),
         OrNone(Strip(SubSeq(p, i + Len(At), Len(p))))>>
  ELSE <<p, NULL>>

\* lines 92-103: the title and the company of the parts
TitleAndCompany(parts) ==
  IF Len(parts) = 2 THEN SplitAt(parts[2], Find(parts[2], At))
  ELSE IF Len(parts) >= 3 THEN
    <<OrNone(Join(SubSeq(parts, 2, Len(parts) - 1), Dash)), parts[Len(parts)]>>
  ELSE <<NULL, NULL>>

\* lines 90-91, 104: the fields of the parts
FieldsOf(parts, rest) ==
  [name |-> OrNone(IF parts # <<>> THEN parts[1] ELSE NULL),
   title |-> OrNone(rest[1]),
   company |-> OrNone(rest[2])]

\* lines 84-86: the parts, split on " - " or else on "|"
PartsOf(t, dashed) ==
  IF Len(dashed) <= 1 /\ Contains(t, Bar)
  THEN StrippedNonEmpty(SplitOn(t, Bar))
  ELSE dashed

\* lines 84-104: the fields of a text without its suffix
SplitStripped(t) ==
  FieldsOf(PartsOf(t, StrippedNonEmpty(SplitOn(t, Dash))),
           TitleAndCompany(PartsOf(t, StrippedNonEmpty(SplitOn(t, Dash)))))

\* lines 77-104
split_headline_text(txt) == SplitStripped(StripSuffixes(Strip(txt), 1))

\* The texts the splitter is given: up to MaxSeps + 1 pieces (a word, two
\* words, or nothing) with a separator between each two, and possibly one of
\* the site-name suffixes at the end.
MaxSeps == 3

Pieces == {<<>>, <<"x">>, <<"y", " ", "z">>}
Separators == {Dash, <<" ", "|", " ">>, At}
SuffixTexts == {<<>>} \cup {<<" ">> \o Suffixes[k] : k \in DOMAIN Suffixes}

TextInputs ==
  UNION {[pieces : [1..(n + 1) -> Pieces],
          seps : [1..n -> Separators],
          suffix : SuffixTexts] : n \in 0..MaxSeps}

RECURSIVE RenderFrom(_, _)
RenderFrom(inp, k) ==
  IF k > Len(inp.seps) THEN inp.pieces[k]
  ELSE inp.pieces[k] \o inp.seps[k] \o RenderFrom(inp, k + 1)

Render(inp) == RenderFrom(inp, 1) \o inp.suffix

SplitInit == RunInit /\ FetchIdle /\ text \in TextInputs /\ split = NONE

SplitHeadline ==
  /\ text # NONE
  /\ split = NONE
  /\ split' = split_headline_text(Render(text))
  /\ UNCHANGED <<text, storeVars, runVars, fetchVars>>

SplitNext == SplitHeadline

SplitSpec == SplitInit /\ [][SplitNext]_vars

\* ------------------------------------- scraper_public.fetch_public_headline
\* One call, step by step: the retry loop (lines 53-73), the parse (line 75),
\* the extraction stages (lines 106-177) and the return (lines 179-192).

\* what requests.get can do: a response with a status, or RequestException
Statuses == {"200", "404", "500", "501"}
Outcomes == Statuses \cup {"exception"}

\* a retry for every 5xx status
RetryStatuses_Every5xx == {"500", "501", "502", "503", "504"}

\* line 65: the statuses that are retried
RetryStatuses == {"500", "502", "503", "504"}

Get(outcome) == [op |-> "get", outcome |-> outcome]
Sleep == [op |-> "sleep", outcome |-> "1.0"]

ABSENT == <<"ABSENT">>

\* tag and tag.get("content")
Present(content) == content # ABSENT /\ content # <<>>

\* not v
Falsy(v) == v = NULL \/ v = <<>>

\* a merge in which the later value wins
Or_LaterWins(a, b) == IF Falsy(b) THEN a ELSE b

\* a or b
Or(a, b) == IF Falsy(a) THEN b ELSE a

\* The documents: each source absent or with a content of its own words.
OgTitles ==
  {ABSENT, <<"n1">>, <<"n1">> \o Dash \o <<"t1">>,
   <<"n1">> \o Dash \o <<"t1">> \o At \o <<"c1">>}
TwitterTitles ==
  {ABSENT, <<"n2">> \o Dash \o <<"t2">>,
   <<"n2">> \o Dash \o <<"t2">> \o Dash \o <<"c2">>}
Descriptions ==
  {ABSENT, <<"n3", " ", "t3">>, <<"n3">> \o Dash \o <<"t3">>}
TwitterDescriptions == {ABSENT, <<"n4", " ", "|", " ", "t4">> \o At \o <<"c4">>}
DocTitles == {ABSENT, <<"n6">> \o Dash \o <<"t6", " ", "|", " ", "LinkedIn">>}

\* an object of a JSON-LD block: "@type", "name", "jobTitle", worksFor.name
\* (NULL: missing, or not a string)
Candidate(type, name, jobTitle, worksFor) ==
  [type |-> type, name |-> name, jobTitle |-> jobTitle, worksFor |-> worksFor]

Candidates ==
  {Candidate("Person", NULL, <<"t5">>, NULL),
   Candidate("Person", <<"n5">>, NULL, <<" ", "c5">>),
   Candidate("Person", <<"n7">>, <<"t7">>, <<"c7">>),
   Candidate("Organization", <<"n8">>, <<"t8">>, <<"c8">>)}

\* the JSON-LD blocks of a document hold at most MaxCandidates objects
MaxCandidates == 2

\* the blocks made of the objects of flat, a new block starting after each
\* place in cuts
Blocks(flat, cuts) ==
  LET starts == {1} \cup {k + 1 : k \in cuts}
      n == Cardinality(starts)
      start(j) == CHOOSE i \in starts : Cardinality({k \in starts : k < i}) = j - 1
  IN IF flat = <<>> THEN <<>>
     ELSE [j \in 1..n |->
             SubSeq(flat, start(j), IF j = n THEN Len(flat) ELSE start(j + 1) - 1)]

LdBlocks ==
  UNION {{Blocks(flat, cuts) : cuts \in SUBSET (1..(Len(flat) - 1))} :
           flat \in UNION {[1..n -> Candidates] : n \in 0..MaxCandidates}}

Documents ==
  [og : OgTitles, tw : TwitterTitles, desc : Descriptions,
   twdesc : TwitterDescriptions, ld : LdBlocks, title : DocTitles]

NoneConsulted == [sources |-> {}, blocks |-> 0]

\* the call begins (lines 45-52)
FetchCall ==
  /\ fpc \in {"idle", "returned"}
  /\ fpc' = "request"
  /\ attempt' = 0
  /\ requests' = <<>>
  /\ doc' = NONE
  /\ name_from_page' = NULL
  /\ title' = NULL
  /\ company' = NULL
  /\ consulted' = NoneConsulted
  /\ obs' = NONE
  /\ UNCHANGED <<storeVars, runVars, splitVars>>

\* lines 53-73: one turn of the retry loop
HttpGet(outcome) ==
  /\ fpc = "request"
  /\ IF outcome = "exception" THEN
       /\ requests' = Append(requests, Get(outcome))
       /\ obs' = Observation(NULL, NULL, NULL, "network_error")
       /\ fpc' = "returned"
       /\ UNCHANGED attempt
     ELSE IF outcome = "200" THEN
       /\ requests' = Append(requests, Get(outcome))
       /\ fpc' = "parse"
       /\ UNCHANGED <<attempt, obs>>
     ELSE IF attempt = 0 /\ outcome \in RetryStatuses THEN
       /\ requests' = requests \o <<Get(outcome), Sleep>>
       /\ attempt' = 1
       /\ fpc' = "request"
       /\ UNCHANGED obs
     ELSE
       /\ requests' = Append(requests, Get(outcome))
       /\ obs' = Observation(NULL, NULL, NULL, "bad_status")
       /\ fpc' = "returned"
       /\ UNCHANGED attempt
  /\ UNCHANGED <<doc, name_from_page, title, company, consulted>>
  /\ UNCHANGED <<storeVars, runVars, splitVars>>

\* line 75: soup = BeautifulSoup(response.text, "html.parser")
Parse(d) ==
  /\ fpc = "parse"
  /\ doc' = d
  /\ fpc' = "og"
  /\ UNCHANGED <<attempt, requests, name_from_page, title, company, consulted, obs>>
  /\ UNCHANGED <<storeVars, runVars, splitVars>>

\* lines 122-124 (and 133-135, 144-146, 175-177): the merge of a split
\* content into the fields
Merged(content) ==
  LET r == split_headline_text(content)
  IN [name |-> Or(name_from_page, r.name),
      title |-> Or(title, r.title),
      company |-> Or(company, r.company)]

\* the stage is over: on to the next one
StageDone(next) ==
  /\ fpc' = next
  /\ UNCHANGED <<attempt, requests, doc, obs>>
  /\ UNCHANGED <<storeVars, runVars, splitVars>>

\* the stage reads nothing
StagePassed ==
  UNCHANGED <<name_from_page, title, company, consulted>>

\* the stage reads a content and merges it
StageMerged(source, content) ==
  /\ name_from_page' = Merged(content).name
  /\ title' = Merged(content).title
  /\ company' = Merged(content).company
  /\ consulted' = [consulted EXCEPT !.sources = @ \cup {source}]

\* lines 110-113: og:title
StageOgTitle ==
  /\ fpc = "og"
  /\ IF Present(doc.og)
     THEN LET r == split_headline_text(doc.og)
          IN /\ name_from_page' = r.name
             /\ title' = r.title
             /\ company' = r.company
             /\ consulted' = [consulted EXCEPT !.sources = @ \cup {"og"}]
     ELSE StagePassed
  /\ StageDone("tw")

\* lines 115-124: twitter:title
StageTwitterTitle ==
  /\ fpc = "tw"
  /\ IF Falsy(title) /\ Present(doc.tw)
     THEN StageMerged("tw", doc.tw)
     ELSE StagePassed
  /\ StageDone("desc")

\* lines 126-135: og:description / description, if it holds " - "
StageDescription ==
  /\ fpc = "desc"
  /\ IF Falsy(title) /\ Falsy(company) /\ Present(doc.desc) /\ Contains(doc.desc, Dash)
     THEN StageMerged("desc", doc.desc)
     ELSE StagePassed
  /\ StageDone("twdesc")

\* lines 137-146: twitter:description
StageTwitterDescription ==
  /\ fpc = "twdesc"
  /\ IF Falsy(title) /\ Falsy(company) /\ Present(doc.twdesc)
     THEN StageMerged("twdesc", doc.twdesc)
     ELSE StagePassed
  /\ StageDone("ld")

\* lines 157-167: one object of a block
ReadCandidate(acc, obj) ==
  IF obj.type # "Person" THEN acc
  ELSE [name |-> IF Falsy(acc.name) /\ obj.name # NULL
                 THEN Or(Strip(obj.name), acc.name)
                 ELSE acc.name,
        title |-> IF obj.jobTitle # NULL
                  THEN Or(acc.title, OrNone(Strip(obj.jobTitle)))
                  ELSE acc.title,
        company |-> IF obj.worksFor # NULL
                    THEN Or(acc.company, OrNone(Strip(obj.worksFor)))
                    ELSE acc.company]

\* lines 156-167: the objects of a block, from the k-th on
RECURSIVE ReadBlock(_, _, _)
ReadBlock(acc, block, k) ==
  IF k > Len(block) THEN acc
  ELSE ReadBlock(ReadCandidate(acc, block[k]), block, k + 1)

\* lines 150-169: the blocks from the j-th on; stops after a block that
\* leaves a title or a company
RECURSIVE ReadBlocks(_, _, _)
ReadBlocks(acc, blocks, j) ==
  IF j > Len(blocks) THEN [fields |-> acc, blocks |-> j - 1]
  ELSE LET read == ReadBlock(acc, blocks[j], 1)
       IN IF ~Falsy(read.title) \/ ~Falsy(read.company)
          THEN [fields |-> read, blocks |-> j]
          ELSE ReadBlocks(read, blocks, j + 1)

\* lines 148-169: JSON-LD Person
StagePerson ==
  /\ fpc = "ld"
  /\ IF Falsy(title) /\ Falsy(company)
     THEN LET r == ReadBlocks([name |-> name_from_page, title |-> title,
                               company |-> company], doc.ld, 1)
          IN /\ name_from_page' = r.fields.name
             /\ title' = r.fields.title
             /\ company' = r.fields.company
             /\ consulted' = [consulted EXCEPT !.blocks = r.blocks]
     ELSE StagePassed
  /\ StageDone("title")

\* a <title> stage that runs whatever the fields hold
StageDocTitle_Unguarded ==
  /\ fpc = "title"
  /\ IF Present(doc.title)
     THEN StageMerged("title", doc.title)
     ELSE StagePassed
  /\ StageDone("return")

\* lines 171-177: the <title> element
StageDocTitle ==
  /\ fpc = "title"
  /\ IF Falsy(title) /\ Falsy(company) /\ Present(doc.title)
     THEN StageMerged("title", doc.title)
     ELSE StagePassed
  /\ StageDone("return")

\* a return without the no_public_headline test
FetchReturn_AlwaysOk ==
  /\ fpc = "return"
  /\ obs' = Observation(name_from_page, title, company, NoError)
  /\ fpc' = "returned"
  /\ UNCHANGED <<attempt, requests, doc, name_from_page, title, company, consulted>>
  /\ UNCHANGED <<storeVars, runVars, splitVars>>

\* lines 179-192
FetchReturn ==
  /\ fpc = "return"
  /\ obs' = IF Falsy(name_from_page) /\ Falsy(title) /\ Falsy(company)
            THEN Observation(NULL, NULL, NULL, "no_public_headline")
            ELSE Observation(name_from_page, title, company, NoError)
  /\ fpc' = "returned"
  /\ UNCHANGED <<attempt, requests, doc, name_from_page, title, company, consulted>>
  /\ UNCHANGED <<storeVars, runVars, splitVars>>

FetchNext ==
  \/ FetchCall
  \/ \E outcome \in Outcomes : HttpGet(outcome)
  \/ fpc = "parse" /\ \E d \in Documents : Parse(d)
  \/ StageOgTitle
  \/ StageTwitterTitle
  \/ StageDescription
  \/ StageTwitterDescription
  \/ StagePerson
  \/ StageDocTitle
  \/ FetchReturn

FetchSpec == Init /\ [][FetchNext]_vars

\* ================================================================ claims

\* the trimmed form of a string, read off its characters: what lies between
\* its first and its last non-whitespace character, NULL if there is none
Trimmed(raw) ==
  IF raw = NULL THEN NULL
  ELSE LET inked == {i \in 1..Len(raw) : raw[i] \notin Whitespace}
       IN IF inked = {} THEN NULL
          ELSE SubSeq(raw,
                      CHOOSE i \in inked : \A j \in inked : i <= j,
                      CHOOSE i \in inked : \A j \in inked : j <= i)

Last(h) == h[Len(h)]
Uninitialized(row) == row.last_title = NULL /\ row.last_company = NULL

\* the last detect_and_record_change call returned (and the store is as it left it)
CallReturned == before # NONE /\ call # NONE /\ call.ret # Raised
\* the entity's stored row before that call, and now
StoredBefore == before.people[call.person_row.id]
StoredNow == people[call.person_row.id]
ObservedTitle == Trimmed(call.observed_title)
ObservedCompany == Trimmed(call.observed_company)
\* the call appended exactly one history record / none
LoggedOne ==
  Len(history) = Len(before.history) + 1
  /\ SubSeq(history, 1, Len(before.history)) = before.history
LoggedNone == history = before.history

\* C1: a call on an entity whose stored title and company are both null, with
\* any observation (both null included), appends exactly one history record,
\* INIT with old title = old company = null and the normalized observed values
\* as new title / company, and the stored snapshot becomes those values.
C1_InitRecordsObservation ==
  (CallReturned /\ Uninitialized(StoredBefore)) =>
    /\ LoggedOne
    /\ Last(history) = [person_id |-> call.person_row.id,
                        old_title |-> NULL, new_title |-> ObservedTitle,
                        old_company |-> NULL, new_company |-> ObservedCompany,
                        change_type |-> "INIT"]
    /\ StoredNow.last_title = ObservedTitle
    /\ StoredNow.last_company = ObservedCompany

\* reached: an INIT for an observation whose title is whitespace and whose
\* company is null, on an entity never seen before
C1_Witness ==
  /\ CallReturned
  /\ Uninitialized(StoredBefore)
  /\ call.observed_title = <<" ">>
  /\ call.observed_company = NULL
  /\ LoggedOne
  /\ Last(history).change_type = "INIT"
  /\ Uninitialized(StoredNow)

\* C2: on an initialized snapshot a field has changed iff its observed value
\* is non-null and differs from the stored one; the transition is
\* TITLE_AND_COMPANY_CHANGE, TITLE_CHANGE, COMPANY_CHANGE or NO_CHANGE (no
\* record) according to which fields changed.
ExpectedType ==
  LET title_changed == ObservedTitle # NULL /\ ObservedTitle # StoredBefore.last_title
      company_changed == ObservedCompany # NULL /\ ObservedCompany # StoredBefore.last_company
  IN IF title_changed /\ company_changed THEN "TITLE_AND_COMPANY_CHANGE"
     ELSE IF title_changed THEN "TITLE_CHANGE"
     ELSE IF company_changed THEN "COMPANY_CHANGE"
     ELSE "NO_CHANGE"

C2_Classification ==
  (CallReturned /\ ~Uninitialized(StoredBefore)) =>
    IF ExpectedType = "NO_CHANGE"
    THEN LoggedNone /\ call.ret = Returned(FALSE, "NO CHANGE")
    ELSE /\ LoggedOne
         /\ Last(history).change_type = ExpectedType
         /\ call.ret = Returned(TRUE, "CHANGE")

\* reached: stored title set, observed title null, observed company new:
\* a COMPANY_CHANGE
C2_Witness ==
  /\ CallReturned
  /\ StoredBefore.last_title # NULL
  /\ StoredBefore.last_company # NULL
  /\ ObservedTitle = NULL
  /\ ObservedCompany # NULL
  /\ ObservedCompany # StoredBefore.last_company
  /\ LoggedOne
  /\ Last(history).change_type = "COMPANY_CHANGE"

\* C3 (as claimed): the snapshot write of a change touches only the fields
\* that changed: a TITLE_CHANGE leaves the stored company as it was, a
\* COMPANY_CHANGE leaves the stored title as it was.
C3_ChangeWritesOnlyChangedFields ==
  (CallReturned /\ ~Uninitialized(StoredBefore) /\ LoggedOne) =>
    /\ Last(history).change_type = "TITLE_CHANGE" =>
         StoredNow.last_company = StoredBefore.last_company
    /\ Last(history).change_type = "COMPANY_CHANGE" =>
         StoredNow.last_title = StoredBefore.last_title

\* C4: the same observation (some field non-null) applied twice in a row to
\* an initialized snapshot, the second call reading what the first wrote:
\* the second application is a NO_CHANGE and appends no record.
C4_SecondApplicationNoChange ==
  (/\ CallReturned
   /\ call.repeated
   /\ call.person_row = StoredBefore
   /\ ~Uninitialized(StoredBefore)
   /\ (call.observed_title # NULL \/ call.observed_company # NULL)) =>
    /\ call.ret = Returned(FALSE, "NO CHANGE")
    /\ LoggedNone

\* reached: the second application of an observation whose first application
\* changed the entity's title
C4_Witness ==
  /\ CallReturned
  /\ call.repeated
  /\ ObservedTitle # NULL
  /\ call.ret = Returned(FALSE, "NO CHANGE")
  /\ history # <<>>
  /\ Last(history).person_id = call.person_row.id
  /\ Last(history).change_type = "TITLE_CHANGE"
  /\ Last(history).new_title = ObservedTitle

\* C5 (as claimed): a TITLE_CHANGE record has old_title = the stored title,
\* new_title = the observed title, and old_company = new_company = the
\* stored company.
C5_TitleChangeEchoesCompany ==
  (/\ CallReturned
   /\ ~Uninitialized(StoredBefore)
   /\ LoggedOne
   /\ Last(history).change_type = "TITLE_CHANGE") =>
    /\ Last(history).old_title = StoredBefore.last_title
    /\ Last(history).new_title = ObservedTitle
    /\ Last(history).old_company = StoredBefore.last_company
    /\ Last(history).new_company = StoredBefore.last_company

\* C6: a NO_CHANGE appends no history record and changes nothing of the
\* stored row but last_seen, which becomes the current date.
C6_NoChangeTouchesOnlyLastSeen ==
  (CallReturned /\ call.ret.message = "NO CHANGE") =>
    /\ LoggedNone
    /\ StoredNow = [StoredBefore EXCEPT !.last_seen = Today]

\* reached: a NO_CHANGE on an entity last seen on an earlier day
C6_Witness ==
  /\ CallReturned
  /\ call.ret.message = "NO CHANGE"
  /\ StoredBefore.last_seen = Earlier
  /\ StoredNow.last_seen = Today
  /\ StoredNow.last_title = StoredBefore.last_title

\* the run has finished with an entity (before.person_id) whose fetch
\* returned result, and the date has not changed since
Processed == before # NONE /\ result # NONE /\ pc # "check"

C9_ErrorIsSkippedWithoutWrite ==
  (Processed /\ result.error # NoError) =>
    /\ call = NONE
    /\ skipped_count = before.skipped_count + 1
    /\ changed_count = before.changed_count
    /\ unchanged_count = before.unchanged_count
    /\ history = before.history
    /\ \A i \in DOMAIN before.people : people[i] = before.people[i]

\* reached: no_public_headline for an entity that had been seen today
C9_Witness ==
  /\ Processed
  /\ result.error = "no_public_headline"
  /\ people[before.person_id].last_seen = Today
  /\ skipped_count = 1

\* C10: the loop fetches the listed entities one by one in list order,
\* whatever happened to the earlier ones (a fetch or the diff raising
\* included), is never stuck, and ends by printing the summary line.
C10_LoopAttemptsEveryEntity ==
  /\ Len(fetched) <= Len(listed)
  /\ \A k \in DOMAIN fetched : fetched[k] = listed[k].id
  /\ pc = "fetch" => Len(fetched) = index - 1
  /\ pc \in {"check", "sleep"} => Len(fetched) = index
  /\ (pc \in {"summary", "done"} /\ listed # <<>>) => Len(fetched) = Len(listed)
  /\ (pc = "done" /\ listed # <<>>) =>
       printed = Summary(Len(listed), changed_count, unchanged_count, skipped_count)
  /\ pc \in {"fetch", "check", "sleep", "summary"} => ENABLED RunStep

\* reached: the first entity's fetch or diff raised, and the second entity's
\* fetch has been issued
C10_Witness ==
  /\ pc = "check"
  /\ index = 2
  /\ printed.tag = "SKIP"
  /\ printed.reason \in {"unexpected_error", "diff_error"}
  /\ printed.person_id = listed[1].id
  /\ fetched = <<listed[1].id, listed[2].id>>

\* C11 (as claimed): in a run with a positive delay, the fetch of the next
\* entity is issued only after the delay has elapsed, whatever happened to
\* the entity before it (success, skip, fetch raising, diff raising): the
\* loop gets to its next fetch from the sleep only.
C11_DelayBeforeEveryNextFetch ==
  [][(/\ pc \in {"fetch", "check", "sleep"}
      /\ delay > 0
      /\ pc' = "fetch"
      /\ index' = index + 1) => pc = "sleep"]_vars

\* ---- the splitter

\* the places where the delimiter d stands in t
Hits(t, d) ==
  {i \in 1..(Len(t) - Len(d) + 1) : SubSeq(t, i, i + Len(d) - 1) = d}

\* what stands before, between and after the delimiters of t (they do not
\* overlap in the texts considered)
RawSegs(t, d) ==
  LET hits == Hits(t, d)
      n == Cardinality(hits)
      hit(k) == CHOOSE i \in hits : Cardinality({j \in hits : j < i}) = k - 1
  IN [k \in 1..(n + 1) |->
        SubSeq(t, IF k = 1 THEN 1 ELSE hit(k - 1) + Len(d),
                  IF k = n + 1 THEN Len(t) ELSE hit(k) - 1)]

\* the segments of t: trimmed, the empty ones dropped
Segs(t, d) ==
  LET raw == RawSegs(t, d)
  IN SelectSeq([k \in DOMAIN raw |-> Trimmed(raw[k])], LAMBDA q : q # NULL)

\* the text the segmentation works on: the input trimmed, its suffix handled
Segmented == StripSuffixes(Strip(Render(text)), 1)

DashSegs == Segs(Segmented, Dash)

\* the segments that remain: those of " - ", or those of "|" if " - " leaves
\* at most one and the text has a "|"
Remaining ==
  IF Len(DashSegs) <= 1 /\ Hits(Segmented, Bar) # {}
  THEN Segs(Segmented, Bar)
  ELSE DashSegs

\* C18: a text whose " - " split leaves n >= 3 non-empty trimmed segments
\* s1..sn gives name = s1, company = sn and title = s2 - ... - s(n-1), the
\* middle segments with " - " between them and nothing else; an " at "
\* inside a segment stays where it is.
C18_ThreeOrMoreSegments ==
  (split # NONE /\ Len(DashSegs) >= 3) =>
    /\ split.name = DashSegs[1]
    /\ split.company = DashSegs[Len(DashSegs)]
    /\ RawSegs(split.title, Dash) = SubSeq(DashSegs, 2, Len(DashSegs) - 1)

\* reached: three segments, the middle one holding an " at "
C18_Witness ==
  /\ split # NONE
  /\ Len(DashSegs) = 3
  /\ Hits(DashSegs[2], At) # {}
  /\ split.title = DashSegs[2]
  /\ split.company = DashSegs[3]

\* C19: when exactly two segments remain, name is the first; a second
\* segment with an " at " is cut at the first one into title (left) and
\* company (right), each trimmed; otherwise it is the title whole and
\* company is null.
C19_TwoSegments ==
  (split # NONE /\ Len(Remaining) = 2) =>
    LET p == Remaining[2]
        ats == Hits(p, At)
        first == CHOOSE i \in ats : \A j \in ats : i <= j
    IN /\ split.name = Remaining[1]
       /\ IF ats = {}
          THEN split.title = p /\ split.company = NULL
          ELSE /\ split.title = Trimmed(SubSeq(p, 1, first - 1))
               /\ split.company = Trimmed(SubSeq(p, first + Len(At), Len(p)))

\* reached: a second segment with two " at ", cut at the first
C19_Witness ==
  /\ split # NONE
  /\ Len(Remaining) = 2
  /\ Cardinality(Hits(Remaining[2], At)) = 2
  /\ split.title # NULL
  /\ Hits(split.title, At) = {}
  /\ Hits(split.company, At) # {}

\* the words of the site-name suffixes
SuffixWords == {"LinkedIn", "Profile", "Professional"}

HasSuffixWord(v) == \E i \in DOMAIN v : v[i] \in SuffixWords

\* C20 (as claimed): a text that ends with one of the known suffixes has the
\* whole suffix removed, so none of the suffix's words is in the returned
\* name, title or company.
C20_SuffixRemovedWhole ==
  (split # NONE /\ text.suffix # <<>>) =>
    /\ ~HasSuffixWord(split.name)
    /\ ~HasSuffixWord(split.title)
    /\ ~HasSuffixWord(split.company)

\* ---- the fetch

\* the requests of the call, without the sleeps
Gets == SelectSeq(requests, LAMBDA q : q.op = "get")

FiveHundreds == {"500", "501", "502", "503", "504"}
Transient == {"500", "502", "503", "504"}

\* the retry policy with `retried` as the statuses that call for the retry
RetryPolicy(retried) ==
  /\ Len(Gets) <= 2
  \* a second request: after a retried first response and the sleep
  /\ Len(Gets) = 2 =>
       /\ Gets[1].outcome \in retried
       /\ requests = <<Gets[1], Sleep, Gets[2]>>
  /\ Len(Gets) = 0 => requests = <<>>
  /\ Len(Gets) = 1 =>
       requests = IF Gets[1].outcome \in retried THEN <<Gets[1], Sleep>> ELSE Gets
  \* a retried first response: the call goes on to the second request
  /\ (Len(Gets) = 1 /\ Gets[1].outcome \in retried) => fpc = "request"
  \* any other non-200 first response: bad_status, no retry
  /\ (Len(Gets) = 1 /\ Gets[1].outcome \notin retried \cup {"200", "exception"}) =>
       /\ fpc = "returned"
       /\ obs = Observation(NULL, NULL, NULL, "bad_status")
  \* after the retry: bad_status if it is not a 200 either
  /\ (Len(Gets) = 2 /\ Gets[2].outcome \notin {"200", "exception"}) =>
       /\ fpc = "returned"
       /\ obs = Observation(NULL, NULL, NULL, "bad_status")
  \* an exception on either attempt: network_error, nothing more
  /\ (Gets # <<>> /\ Gets[Len(Gets)].outcome = "exception") =>
       /\ fpc = "returned"
       /\ obs = Observation(NULL, NULL, NULL, "network_error")
  /\ (Len(Gets) = 2 => Gets[1].outcome # "exception")
  \* a 200: on to the document
  /\ (Gets # <<>> /\ Gets[Len(Gets)].outcome = "200") =>
       (fpc \notin {"request"} /\ (obs # NONE => obs.error \notin {"bad_status", "network_error"}))

\* C12 (as claimed): at most two requests per call; the second one, after the
\* sleep, exactly when the first response has a 5xx status; bad_status without
\* retry for another non-200 status, and after the retry for a 5xx;
\* network_error with no further request for an exception on either attempt.
C12_RetryOnAny5xx == fpc # "idle" => RetryPolicy(FiveHundreds)

\* C12 (amended): the same, the retried statuses being 500, 502, 503 and 504
\* only; any other 5xx status (501) is a bad_status at once.
C12_RetryOnTransient5xx == fpc # "idle" => RetryPolicy(Transient)

\* reached: a 500, the sleep, a 404 on the retry, bad_status
C12_Witness ==
  /\ requests = <<Get("500"), Sleep, Get("404")>>
  /\ fpc = "returned"
  /\ obs.error = "bad_status"

\* the call has returned after the extraction stages
Extracted == fpc = "returned" /\ doc # NONE

\* C13: a returned Observation with an error has no field; one without error
\* has at least one; and no_public_headline is returned exactly when the
\* stages have left name_from_page, title and company all null.
C13_ObservationInvariant ==
  fpc = "returned" =>
    /\ obs.error # NoError =>
         obs.name_from_page = NULL /\ obs.title = NULL /\ obs.company = NULL
    /\ obs.error = NoError =>
         obs.name_from_page # NULL \/ obs.title # NULL \/ obs.company # NULL
    /\ obs.error = "no_public_headline" <=>
         (doc # NONE /\ name_from_page = NULL /\ title = NULL /\ company = NULL)
    /\ obs.error = NoError =>
         /\ obs.name_from_page = name_from_page
         /\ obs.title = title
         /\ obs.company = company

\* reached: a document with a description and a JSON-LD block, neither of
\* any use: no_public_headline
C13_Witness ==
  /\ Extracted
  /\ obs.error = "no_public_headline"
  /\ doc.desc # ABSENT
  /\ doc.ld # <<>>

\* the content of a source is there to be consulted
Usable(source) ==
  CASE source = "og" -> doc.og # ABSENT
    [] source = "tw" -> doc.tw # ABSENT
    [] source = "desc" -> doc.desc # ABSENT /\ Hits(doc.desc, Dash) # {}
    [] source = "twdesc" -> doc.twdesc # ABSENT
    [] source = "title" -> doc.title # ABSENT

TextSources == {"og", "tw", "desc", "twdesc", "title"}

\* C14 (as claimed): the chain stops early only once title and company are
\* both resolved.  Fields are never unset, so a call that returns with
\* exactly one of the two null has stopped at no stage: it has consulted
\* every source the document holds, every JSON-LD block included.
C14_StopsOnlyWhenBothResolved ==
  (Extracted /\ ((title = NULL) # (company = NULL))) =>
    /\ \A source \in TextSources : Usable(source) => source \in consulted.sources
    /\ consulted.blocks = Len(doc.ld)

\* C15: first non-null wins, field by field: while a call is under way, a
\* name_from_page, title or company that is set is not changed by any later
\* stage (the other fields may still be filled).
C15_FirstNonNullWins ==
  [][fpc \notin {"idle", "returned"} =>
       /\ name_from_page # NULL => name_from_page' = name_from_page
       /\ title # NULL => title' = title
       /\ company # NULL => company' = company]_vars

\* reached: the name from og:title kept, the title from twitter:title, whose
\* own name was not taken
C15_Witness ==
  /\ Extracted
  /\ doc.og = <<"n1">>
  /\ doc.tw # ABSENT
  /\ obs.name_from_page = <<"n1">>
  /\ obs.title = <<"t2">>

\* the objects of the JSON-LD blocks, in document order
RECURSIVE Flat(_)
Flat(blocks) ==
  IF blocks = <<>> THEN <<>> ELSE Head(blocks) \o Flat(Tail(blocks))

IsPerson(obj) == obj.type = "Person"

\* a Person with a job title and an organization name
FullPerson(obj) ==
  IsPerson(obj) /\ Trimmed(obj.jobTitle) # NULL /\ Trimmed(obj.worksFor) # NULL

\* C16 (as claimed): no og:title, and a Person with a job title and an
\* organization name in the JSON-LD: the Observation has that job title and
\* organization name, and the <title> element is not consulted.
C16_PersonDataWithoutPrimary ==
  (Extracted /\ doc.og = ABSENT /\ \E k \in DOMAIN Flat(doc.ld) : FullPerson(Flat(doc.ld)[k])) =>
    /\ \E k \in DOMAIN Flat(doc.ld) :
         /\ FullPerson(Flat(doc.ld)[k])
         /\ obs.title = Trimmed(Flat(doc.ld)[k].jobTitle)
         /\ obs.company = Trimmed(Flat(doc.ld)[k].worksFor)
    /\ "title" \notin consulted.sources

\* a content from which the splitter can take a name only: it has neither
\* " - " nor "|"
NameOnly(content) ==
  content = ABSENT \/ (Hits(content, Dash) = {} /\ Hits(content, Bar) = {})

\* the first Person, in document order, with a job title or an organization
\* name is the k-th object
FirstHolder(k) ==
  LET objs == Flat(doc.ld)
      holds(j) == /\ IsPerson(objs[j])
                  /\ (Trimmed(objs[j].jobTitle) # NULL \/ Trimmed(objs[j].worksFor) # NULL)
  IN /\ k \in DOMAIN objs
     /\ holds(k)
     /\ \A j \in 1..(k - 1) : ~holds(j)

\* C16 (amended): when none of the four metadata contents can yield a title
\* or a company (each is absent or has no delimiter) and the first Person
\* with a job title or an organization name has both, the Observation has
\* that job title and organization name, and the <title> element is not
\* consulted.
C16_PersonDataWithoutMetadata ==
  (/\ Extracted
   /\ NameOnly(doc.og) /\ NameOnly(doc.tw) /\ NameOnly(doc.desc) /\ NameOnly(doc.twdesc)) =>
    \A k \in DOMAIN Flat(doc.ld) :
      (FirstHolder(k) /\ FullPerson(Flat(doc.ld)[k])) =>
        /\ obs.title = Trimmed(Flat(doc.ld)[k].jobTitle)
        /\ obs.company = Trimmed(Flat(doc.ld)[k].worksFor)
        /\ "title" \notin consulted.sources

\* reached: name from og:title, title and company from the second object of
\* the JSON-LD, a <title> element that is there and is not read
C16_Witness ==
  /\ Extracted
  /\ doc.og = <<"n1">>
  /\ doc.tw = ABSENT /\ doc.twdesc = ABSENT
  /\ doc.title # ABSENT
  /\ FirstHolder(2)
  /\ obs = Observation(<<"n1">>, <<"t7">>, <<"c7">>, NoError)
  /\ "title" \notin consulted.sources

\* C17 (as claimed): the Person objects are read until title and company
\* are both filled or no object is left, within a block and from block to
\* block.
C17_CandidatesReadUntilFilled ==
  (doc # NONE /\ consulted.blocks > 0 /\ consulted.blocks < Len(doc.ld)) =>
    (title # NULL /\ company # NULL)

\* the history records of an entity, in order
HistoryOf(h, person_id) == SelectSeq(h, LAMBDA rec : rec.person_id = person_id)

\* the step is a call of detect_and_record_change for the entity person_id
DetectStep(person_id) ==
  \/ \E t \in RawValues, c \in RawValues : ApiDetect(person_id, t, c)
  \/ /\ pc = "check"
     /\ listed[index].id = person_id
     /\ \E fail \in StoreFailures : RunDiff(fail)

\* C21: a call of detect_and_record_change only updates the snapshot of the
\* entity it was given and appends to the history: the set of entities is
\* unchanged, every entity keeps its id, name, firm and profile_url, and the
\* snapshot and the history of every other entity are unchanged.
C21_DetectWritesOnlyItsEntity ==
  [][\A p \in 1..MaxPeople :
       DetectStep(p) =>
         /\ DOMAIN people' = DOMAIN people
         /\ \A i \in DOMAIN people :
              /\ people'[i].id = people[i].id
              /\ people'[i].name = people[i].name
              /\ people'[i].firm = people[i].firm
              /\ people'[i].profile_url = people[i].profile_url
              /\ i # p => people'[i] = people[i]
              /\ i # p => HistoryOf(history', i) = HistoryOf(history, i)
         /\ Len(history') \in {Len(history), Len(history) + 1}
         /\ SubSeq(history', 1, Len(history)) = history]_vars

\* reached: a call has written the snapshot and a record of one entity while
\* the other, initialized and with a record of its own, is as it was
C21_Witness ==
  /\ CallReturned
  /\ Len(before.people) = 2
  /\ LoggedOne
  /\ Last(history).person_id = call.person_row.id
  /\ StoredNow # StoredBefore
  /\ \E i \in DOMAIN people :
       /\ i # call.person_row.id
       /\ ~Uninitialized(people[i])
       /\ people[i] = before.people[i]
       /\ HistoryOf(history, i) # <<>>

\* null, or a non-empty string with no whitespace at either end
Clean(v) ==
  \/ v = NULL
  \/ /\ v # <<>>
     /\ v[1] \notin Whitespace
     /\ v[Len(v)] \notin Whitespace

\* an empty or whitespace-only string
Blank(v) == v # NULL /\ \A i \in 1..Len(v) : v[i] \in Whitespace
BlankAsNull(v) == IF Blank(v) THEN NULL ELSE v

\* C22: entities being created by add_person, after any sequence of calls with
\* arbitrary observed strings every stored last_title / last_company and every
\* old_ / new_ title / company of every history record is null or a non-empty
\* trimmed string, and a call given an empty or whitespace-only value does
\* what the call given null in its place would have done.
C22_StoredValuesNormalized ==
  /\ \A i \in DOMAIN people :
       Clean(people[i].last_title) /\ Clean(people[i].last_company)
  /\ \A k \in DOMAIN history :
       /\ Clean(history[k].old_title) /\ Clean(history[k].new_title)
       /\ Clean(history[k].old_company) /\ Clean(history[k].new_company)
  /\ CallReturned =>
       LET r == detect_and_record_change(before.people, before.history,
                   call.person_row, BlankAsNull(call.observed_title),
                   BlankAsNull(call.observed_company), "none", Today)
       IN /\ call.ret = r.ret
          /\ history = r.history
          /\ \A i \in DOMAIN before.people : people[i] = r.people[i]

\* reached: a whitespace title and a padded new company, observed on an
\* initialized entity: a COMPANY_CHANGE that stores the trimmed company
C22_Witness ==
  /\ CallReturned
  /\ ~Uninitialized(StoredBefore)
  /\ call.observed_title = <<" ">>
  /\ call.observed_company = <<" ", "b", " ">>
  /\ LoggedOne
  /\ Last(history).change_type = "COMPANY_CHANGE"
  /\ Last(history).new_title = NULL
  /\ StoredNow.last_company = <<"b">>

\* the step is one add_person of the bulk import (web_app.py line 442)
ImportStep == \E n \in Names, f \in Firms, u \in Urls : AddPerson(n, f, u)

\* the first n rows of the table
FirstRows(tbl, n) == SubSeq(tbl, 1, n)

\* the table holds every listed entity among its first n rows
CoversListed(n) == \A k \in DOMAIN listed : listed[k].id <= n

\* C23: an import step taken at any point of a tracker run creates one new
\* entity, with last_title = last_company = last_seen = null, whether or not
\* its profile URL is tracked already, and touches no existing row and no
\* history record; each call the run makes writes for the listed entities
\* what it would write were the imported rows not there.
C23_ImportOnlyCreatesEntities ==
  [][/\ ImportStep =>
          /\ Len(people') = Len(people) + 1
          /\ FirstRows(people', Len(people)) = people
          /\ Uninitialized(Last(people'))
          /\ Last(people').last_seen = NoDate
          /\ history' = history
     /\ \A fail \in StoreFailures :
          (pc = "check" /\ RunDiff(fail)) =>
            \A n \in 1..Len(people) :
              CoversListed(n) =>
                LET r == detect_and_record_change(FirstRows(people, n), history,
                            listed[index], result.title, result.company, fail, Today)
                IN /\ FirstRows(people', n) = r.people
                   /\ history' = r.history
                   /\ call'.ret = r.ret]_vars

\* reached: during a run over the one entity there was, the same profile was
\* imported again; the run has recorded the listed entity and the new one is
\* a second, unobserved entity with the same URL
C23_Witness ==
  /\ pc \in {"fetch", "check", "sleep", "summary"}
  /\ Len(listed) = 1
  /\ Len(people) = 2
  /\ people[1].profile_url = people[2].profile_url
  /\ CallReturned
  /\ LoggedOne
  /\ call.person_row.id = 1
  /\ ~Uninitialized(people[1])
  /\ Uninitialized(people[2])
  /\ people[2].last_seen = NoDate

\* C24: calls being made one after the other, each on the row as the previous
\* one left it, and the store not failing: the stored (last_title,
\* last_company) of an entity with a history is the (new_title, new_company)
\* of its latest record, its first record has old title and company null, and
\* every later record's (old_title, old_company) is the (new_title,
\* new_company) of the record before it.
C24_HistoryChain ==
  \A i \in DOMAIN people :
    LET h == HistoryOf(history, i)
    IN /\ h = <<>> => Uninitialized(people[i])
       /\ h # <<>> =>
            /\ people[i].last_title = Last(h).new_title
            /\ people[i].last_company = Last(h).new_company
       /\ \A k \in DOMAIN h :
            IF k = 1
            THEN h[k].old_title = NULL /\ h[k].old_company = NULL
            ELSE /\ h[k].old_title = h[k - 1].new_title
                 /\ h[k].old_company = h[k - 1].new_company

\* reached: an entity with an INIT record and a change record after it, the
\* second taking up the values of the first
C24_Witness ==
  \E i \in DOMAIN people :
    LET h == HistoryOf(history, i)
    IN /\ Len(h) = 2
       /\ h[1].change_type = "INIT"
       /\ h[1].new_title # NULL
       /\ h[2].change_type = "TITLE_CHANGE"
       /\ h[2].old_title = h[1].new_title
       /\ people[i].last_title = h[2].new_title
       /\ people[i].last_title # h[1].new_title

\* C25 (as claimed): through the batch driver an entity gets at most one INIT
\* record over any number of runs, that record is the first of its history,
\* and once it is written the entity's snapshot is never again uninitialized
\* (last_title and last_company both null).
C25_SingleInitRecord ==
  \A i \in DOMAIN people :
    LET h == HistoryOf(history, i)
    IN /\ \A k \in DOMAIN h : h[k].change_type = "INIT" => k = 1
       /\ h # <<>> => h[1].change_type = "INIT" /\ ~Uninitialized(people[i])

\* C26: at every point of a run the three counters add up to the number of
\* entities the loop is done with, so at the end of a run over N entities
\* changed_count + unchanged_count + skipped_count = N; each entity adds one
\* to exactly one counter: changed for INIT and every *_CHANGE, unchanged for
\* NO_CHANGE, skipped for an error, a both-null observation or an exception.
C26_RunAccounting ==
  /\ pc = "fetch" => changed_count + unchanged_count + skipped_count = index - 1
  /\ pc = "sleep" => changed_count + unchanged_count + skipped_count = index
  /\ (pc \in {"summary", "done"} /\ listed # <<>>) =>
       changed_count + unchanged_count + skipped_count = Len(listed)
  /\ (pc = "done" /\ listed # <<>>) =>
       printed = Summary(Len(listed), changed_count, unchanged_count, skipped_count)
  /\ (before # NONE /\ pc # "check") =>
       LET c == changed_count - before.changed_count
           u == unchanged_count - before.unchanged_count
           s == skipped_count - before.skipped_count
           outcome ==
             IF result = NONE \/ call = NONE \/ call.ret = Raised THEN "skipped"
             ELSE IF call.ret.changed THEN "changed"
             ELSE "unchanged"
       IN /\ <<c, u, s>> = <<IF outcome = "changed" THEN 1 ELSE 0,
                             IF outcome = "unchanged" THEN 1 ELSE 0,
                             IF outcome = "skipped" THEN 1 ELSE 0>>
          /\ (call # NONE /\ call.ret # Raised) =>
               call.ret.changed = (history # before.history)
          /\ (result # NONE /\ (result.error # NoError
                                  \/ (result.title = NULL /\ result.company = NULL))) =>
               call = NONE /\ s = 1

\* reached: the end of a run over two entities, one counted as changed (its
\* INIT) and the other as skipped
C26_Witness ==
  /\ pc = "done"
  /\ Len(listed) = 2
  /\ changed_count = 1
  /\ unchanged_count = 0
  /\ skipped_count = 1
  /\ Len(history) = 1
  /\ history[1].change_type = "INIT"
  /\ printed = Summary(2, 1, 0, 1)

\* C27 (as claimed): in one call the history append and the snapshot update
\* take effect together or not at all, a failing store operation included:
\* after the call, returned or raised, either no record was appended and the
\* stored title and company are as before, or one record was appended and the
\* snapshot holds its new title and company, so that the same observation
\* processed again appends no second record for the transition.
C27_RecordAndSnapshotTogether ==
  (before # NONE /\ call # NONE) =>
    \/ /\ LoggedNone
       /\ StoredNow.last_title = StoredBefore.last_title
       /\ StoredNow.last_company = StoredBefore.last_company
    \/ /\ LoggedOne
       /\ StoredNow.last_title = Last(history).new_title
       /\ StoredNow.last_company = Last(history).new_company

====
